---- MODULE Spec2Model ----
(***************************************************************************)
(* awo::basic_savefmt (header "awo/savefmt.hpp", 2025 revision): a move-   *)
(* only guard that saves a stream's formatting parameters with copyfmt()   *)
(* and puts them back on request or on destruction.                        *)
(*                                                                         *)
(* An ios object is a record [fmt, rdbuf]: fmt stands for everything       *)
(* std::basic_ios::copyfmt copies (flags, fill, precision, ...), rdbuf for *)
(* the stream buffer, which copyfmt leaves alone.  The guards live in      *)
(* NumGuards object slots; a slot is dead before construction and after    *)
(* destruction.  A full expression of the form  S << ... ;  is entered by  *)
(* ExprBegin and left by FullExprEnd, which destroys its temporaries.      *)
(***************************************************************************)
EXTENDS Naturals, Sequences, FiniteSets

NumGuards == 2
NumStreams == 2
MaxFmt == 1

nullptr == 0

Guards == 1..NumGuards
Streams == 1..NumStreams
Fmt == 0..MaxFmt

VARIABLES
    live,           \* live[g]: the guard object in slot g exists
    bound_stream,   \* bound_stream[g]: the stream g is bound to, or nullptr
    saved_format,   \* saved_format[g]: the bufferless ios object holding the snapshot
    streams,        \* streams[s]: the ios object of stream s
    chain,          \* the stream of the full expression being evaluated, or nullptr
    temps,          \* the temporaries of that full expression, in order of construction
    before,         \* history: the configuration that stream had when the expression began
    last,           \* the last operation, what it returned, whether the guard changed a stream
    binding         \* history: the stream and configuration recorded when g's binding was made

vars == <<live, bound_stream, saved_format, streams, chain, temps, before, last, binding>>

----------------------------------------------------------------------------
(* The host library's primitive.                                           *)

\* std::basic_ios::init: the formatting parameters of a fresh ios object.
ios_init(sb) == [fmt |-> 0, rdbuf |-> sb]

\* dst.copyfmt(src): every formatting parameter of src replaces dst's;
\* rdbuf (and rdstate) are not copied.
copyfmt(dst, src) == [dst EXCEPT !.fmt = src.fmt]

\* What a caller can observe of a stream's formatting configuration.
Config(x) == x.fmt

----------------------------------------------------------------------------
(* The member functions, on a world w = [bound_stream, saved_format,       *)
(* streams].                                                               *)

World == [bound_stream |-> bound_stream, saved_format |-> saved_format,
          streams |-> streams]

\* Mutant: a default-constructed guard that is bound to the first stream.
basic_savefmt_bound(w, g) ==
    [w EXCEPT !.bound_stream[g] = 1,
              !.saved_format[g] = ios_init(nullptr)]

\* basic_savefmt() = default, with the default member initializers.
basic_savefmt(w, g) ==
    [w EXCEPT !.bound_stream[g] = nullptr,
              !.saved_format[g] = ios_init(nullptr)]

\* Mutant: copies the wrong way round, from the fresh snapshot holder to
\* the stream.
basic_savefmt_stream_resetting(w, g, s) ==
    [w EXCEPT !.bound_stream[g] = s,
              !.saved_format[g] = ios_init(nullptr),
              !.streams[s] = copyfmt(@, ios_init(nullptr))]

\* Mutant: binds without taking the snapshot.
basic_savefmt_stream_unsaved(w, g, s) ==
    [w EXCEPT !.bound_stream[g] = s,
              !.saved_format[g] = ios_init(nullptr)]

\* explicit basic_savefmt( streambase_t& stream )
basic_savefmt_stream(w, g, s) ==
    [w EXCEPT !.bound_stream[g] = s,
              !.saved_format[g] = copyfmt(ios_init(nullptr), w.streams[s])]

\* Mutant: leaves the source bound (a copy, not a transfer).
basic_savefmt_move_shared(w, g, other) ==
    [w EXCEPT !.bound_stream[g] = w.bound_stream[other],
              !.saved_format[g] = copyfmt(ios_init(nullptr), w.saved_format[other])]

\* Mutant: transfers the binding without the snapshot.
basic_savefmt_move_unsaved(w, g, other) ==
    [w EXCEPT !.bound_stream[g] = w.bound_stream[other],
              !.bound_stream[other] = nullptr,
              !.saved_format[g] = ios_init(nullptr)]

\* basic_savefmt( basic_savefmt&& other )
basic_savefmt_move(w, g, other) ==
    [w EXCEPT !.bound_stream[g] = w.bound_stream[other],
              !.bound_stream[other] = nullptr,
              !.saved_format[g] = copyfmt(ios_init(nullptr), w.saved_format[other])]

\* Mutant: no test for self-assignment, so the exchange unbinds the guard.
operator_assign_unguarded(w, g, other) ==
    [w EXCEPT !.bound_stream[g] = w.bound_stream[other],
              !.bound_stream[other] = nullptr,
              !.saved_format[g] = copyfmt(@, w.saved_format[other])]

\* Mutant: leaves the source bound (a copy, not a transfer).
operator_assign_shared(w, g, other) ==
    IF other # g
    THEN [w EXCEPT !.bound_stream[g] = w.bound_stream[other],
                   !.saved_format[g] = copyfmt(@, w.saved_format[other])]
    ELSE w

\* Mutant: the destination puts its own snapshot back before taking over.
operator_assign_restoring(w, g, other) ==
    IF other # g
    THEN LET w0 == IF w.bound_stream[g] # nullptr
                   THEN [w EXCEPT !.streams[w.bound_stream[g]] =
                                      copyfmt(@, w.saved_format[g])]
                   ELSE w
         IN  [w0 EXCEPT !.bound_stream[g] = w.bound_stream[other],
                        !.bound_stream[other] = nullptr,
                        !.saved_format[g] = copyfmt(@, w.saved_format[other])]
    ELSE w

\* basic_savefmt& operator=( basic_savefmt&& other )
operator_assign(w, g, other) ==
    IF other # g
    THEN [w EXCEPT !.bound_stream[g] = w.bound_stream[other],
                   !.bound_stream[other] = nullptr,
                   !.saved_format[g] = copyfmt(@, w.saved_format[other])]
    ELSE w

\* Mutant: swaps the snapshot with the stream's configuration.
restore_swapping(w, g, also_release) ==
    IF w.bound_stream[g] # nullptr
    THEN LET w1 == [w EXCEPT !.streams[w.bound_stream[g]] =
                                 copyfmt(@, w.saved_format[g]),
                             !.saved_format[g] =
                                 copyfmt(@, w.streams[w.bound_stream[g]])]
         IN  IF also_release
             THEN [w1 EXCEPT !.bound_stream[g] = nullptr]
             ELSE w1
    ELSE w

\* Mutant: releases whatever also_release says.
restore_releasing(w, g, also_release) ==
    IF w.bound_stream[g] # nullptr
    THEN [w EXCEPT !.streams[w.bound_stream[g]] = copyfmt(@, w.saved_format[g]),
                   !.bound_stream[g] = nullptr]
    ELSE w

\* Mutant: never releases.
restore_keeping(w, g, also_release) ==
    IF w.bound_stream[g] # nullptr
    THEN [w EXCEPT !.streams[w.bound_stream[g]] = copyfmt(@, w.saved_format[g])]
    ELSE w

\* Mutant: an unbound guard clears its snapshot holder.
restore_clearing(w, g, also_release) ==
    IF w.bound_stream[g] # nullptr
    THEN LET w1 == [w EXCEPT !.streams[w.bound_stream[g]] =
                                 copyfmt(@, w.saved_format[g])]
         IN  IF also_release
             THEN [w1 EXCEPT !.bound_stream[g] = nullptr]
             ELSE w1
    ELSE [w EXCEPT !.saved_format[g] = ios_init(nullptr)]

\* void restore( bool also_release = false )
restore(w, g, also_release) ==
    IF w.bound_stream[g] # nullptr
    THEN LET w1 == [w EXCEPT !.streams[w.bound_stream[g]] =
                                 copyfmt(@, w.saved_format[g])]
         IN  IF also_release
             THEN [w1 EXCEPT !.bound_stream[g] = nullptr]
             ELSE w1
    ELSE w

\* Mutant: rebinds without putting the held snapshot back first.
capture_unrestored(w, g, s) ==
    LET w2 == [w EXCEPT !.bound_stream[g] = s]
    IN  [w2 EXCEPT !.saved_format[g] = copyfmt(@, w2.streams[s])]

\* Mutant: rebinds first, so the held snapshot goes to the new stream.
capture_rebound_first(w, g, s) ==
    LET w1 == IF w.bound_stream[g] # nullptr
              THEN [w EXCEPT !.streams[s] = copyfmt(@, w.saved_format[g])]
              ELSE w
        w2 == [w1 EXCEPT !.bound_stream[g] = s]
    IN  [w2 EXCEPT !.saved_format[g] = copyfmt(@, w2.streams[s])]

\* Mutant: rebinds but keeps the snapshot of the earlier bind.
capture_stale(w, g, s) ==
    LET w1 == restore(w, g, FALSE)
    IN  [w1 EXCEPT !.bound_stream[g] = s]

\* Mutant: puts the held snapshot back and snapshots the new stream, but
\* ends unbound.
capture_unbound(w, g, s) ==
    LET w1 == restore(w, g, TRUE)
    IN  [w1 EXCEPT !.saved_format[g] = copyfmt(@, w1.streams[s])]

\* void capture( streambase_t& stream )
capture(w, g, s) ==
    LET w1 == restore(w, g, FALSE)
        w2 == [w1 EXCEPT !.bound_stream[g] = s]
    IN  [w2 EXCEPT !.saved_format[g] = copyfmt(@, w2.streams[s])]

\* Mutant: a release that also clears the snapshot holder.
release_clearing(w, g) ==
    [w EXCEPT !.bound_stream[g] = nullptr,
              !.saved_format[g] = ios_init(nullptr)]

\* Mutant: a release that forgets nothing.
release_inert(w, g) == w

\* void release()
release(w, g) == [w EXCEPT !.bound_stream[g] = nullptr]

\* Mutant: reports the first stream for every bound guard.
stream_first(w, g) == IF w.bound_stream[g] # nullptr THEN 1 ELSE nullptr

\* streambase_t* stream() const
stream(w, g) == w.bound_stream[g]

\* 2023 revision: explicit operator bool() const
operator_bool_2023(w, g) == w.bound_stream[g] # nullptr

\* 2023 revision: stream_base* stream() const
stream_2023(w, g) == w.bound_stream[g]

\* Mutant: a destructor that restores nothing.
destroy_basic_savefmt_inert(w, g) == w

\* virtual ~basic_savefmt()
destroy_basic_savefmt(w, g) == restore(w, g, FALSE)

\* operator>>( basic_istream& stream, basic_savefmt&& saver )
operator_extract(w, s, saver) == [world |-> capture(w, saver, s), ret |-> s]

\* Mutant: returns the stream without capturing.
operator_insert_uncaptured(w, s, saver) == [world |-> w, ret |-> s]

\* operator<<( basic_ostream& stream, basic_savefmt&& saver )
operator_insert(w, s, saver) == [world |-> capture(w, saver, s), ret |-> s]

----------------------------------------------------------------------------
(* The 2023 revision (strict: restore() throws when unbound).  A member    *)
(* function that can be left by an exception yields an outcome: the world  *)
(* it leaves and whether basic_savefmt::exception left it.                 *)

returns(w) == [world |-> w, thrown |-> FALSE]

\* throw exception( "..." ), before the function has changed anything of w
throws(w) == [world |-> w, thrown |-> TRUE]

\* basic_savefmt() = default
basic_savefmt_2023(w, g) ==
    [w EXCEPT !.bound_stream[g] = nullptr,
              !.saved_format[g] = ios_init(nullptr)]

\* explicit basic_savefmt( stream_base& stream )
basic_savefmt_stream_2023(w, g, s) ==
    [w EXCEPT !.bound_stream[g] = s,
              !.saved_format[g] = copyfmt(ios_init(nullptr), w.streams[s])]

\* basic_savefmt( basic_savefmt&& other )
basic_savefmt_move_2023(w, g, other) ==
    [w EXCEPT !.bound_stream[g] = w.bound_stream[other],
              !.bound_stream[other] = nullptr,
              !.saved_format[g] = copyfmt(ios_init(nullptr), w.saved_format[other])]

\* basic_savefmt& operator=( basic_savefmt&& other )
operator_assign_2023(w, g, other) ==
    IF other # g
    THEN [w EXCEPT !.bound_stream[g] = w.bound_stream[other],
                   !.bound_stream[other] = nullptr,
                   !.saved_format[g] = copyfmt(@, w.saved_format[other])]
    ELSE w

\* Mutant: an unbound restore() that is ignored.
restore_2023_lenient(w, g) ==
    IF w.bound_stream[g] = nullptr
    THEN returns(w)
    ELSE returns([w EXCEPT !.streams[w.bound_stream[g]] =
                               copyfmt(@, w.saved_format[g])])

\* Mutant: throws in every case, after having put the snapshot back.
restore_2023_late(w, g) ==
    IF w.bound_stream[g] = nullptr
    THEN throws(w)
    ELSE throws([w EXCEPT !.streams[w.bound_stream[g]] =
                              copyfmt(@, w.saved_format[g])])

\* void restore()
restore_2023(w, g) ==
    IF w.bound_stream[g] = nullptr
    THEN throws(w)
    ELSE returns([w EXCEPT !.streams[w.bound_stream[g]] =
                               copyfmt(@, w.saved_format[g])])

\* Mutant: capture() that goes through the throwing restore().
capture_2023_checked(w, g, s) ==
    LET r == restore_2023(w, g)
    IN  IF r.thrown
        THEN r
        ELSE LET w2 == [r.world EXCEPT !.bound_stream[g] = s]
             IN  returns([w2 EXCEPT !.saved_format[g] = copyfmt(@, w2.streams[s])])

\* Mutant: rebinds without putting the held snapshot back first.
capture_2023_unrestored(w, g, s) ==
    LET w2 == [w EXCEPT !.bound_stream[g] = s]
    IN  returns([w2 EXCEPT !.saved_format[g] = copyfmt(@, w2.streams[s])])

\* void capture( stream_base& stream )
capture_2023(w, g, s) ==
    LET w1 == IF w.bound_stream[g] # nullptr
              THEN [w EXCEPT !.streams[w.bound_stream[g]] =
                                 copyfmt(@, w.saved_format[g])]
              ELSE w
        w2 == [w1 EXCEPT !.bound_stream[g] = s]
    IN  returns([w2 EXCEPT !.saved_format[g] = copyfmt(@, w2.streams[s])])

\* void release()
release_2023(w, g) == [w EXCEPT !.bound_stream[g] = nullptr]

\* Mutant: a destructor that goes through the throwing restore().
destroy_basic_savefmt_2023_checked(w, g) == restore_2023(w, g)

\* ~basic_savefmt()
destroy_basic_savefmt_2023(w, g) ==
    IF w.bound_stream[g] # nullptr
    THEN returns([w EXCEPT !.streams[w.bound_stream[g]] =
                               copyfmt(@, w.saved_format[g])])
    ELSE returns(w)

\* operator>>( basic_istream& stream, basic_savefmt&& saver )
operator_extract_2023(w, s, saver) ==
    LET c == capture_2023(w, saver, s)
    IN  [world |-> c.world, ret |-> IF c.thrown THEN nullptr ELSE s,
         thrown |-> c.thrown]

\* operator<<( basic_ostream& stream, basic_savefmt&& saver )
operator_insert_2023(w, s, saver) ==
    LET c == capture_2023(w, saver, s)
    IN  [world |-> c.world, ret |-> IF c.thrown THEN nullptr ELSE s,
         thrown |-> c.thrown]

----------------------------------------------------------------------------
(* The 2024 revision (lenient; capture() applies the snapshot inline).     *)

\* basic_savefmt() = default
basic_savefmt_2024(w, g) ==
    [w EXCEPT !.bound_stream[g] = nullptr,
              !.saved_format[g] = ios_init(nullptr)]

\* explicit basic_savefmt( stream_base& stream )
basic_savefmt_stream_2024(w, g, s) ==
    [w EXCEPT !.bound_stream[g] = s,
              !.saved_format[g] = copyfmt(ios_init(nullptr), w.streams[s])]

\* basic_savefmt( basic_savefmt&& other )
basic_savefmt_move_2024(w, g, other) ==
    [w EXCEPT !.bound_stream[g] = w.bound_stream[other],
              !.bound_stream[other] = nullptr,
              !.saved_format[g] = copyfmt(ios_init(nullptr), w.saved_format[other])]

\* basic_savefmt& operator=( basic_savefmt&& other )
operator_assign_2024(w, g, other) ==
    IF other # g
    THEN [w EXCEPT !.bound_stream[g] = w.bound_stream[other],
                   !.bound_stream[other] = nullptr,
                   !.saved_format[g] = copyfmt(@, w.saved_format[other])]
    ELSE w

\* Mutant: applies the snapshot to the new stream instead of the old one.
capture_2024_misdirected(w, g, s) ==
    LET w1 == IF w.bound_stream[g] # nullptr
              THEN [w EXCEPT !.streams[s] = copyfmt(@, w.saved_format[g])]
              ELSE w
        w2 == [w1 EXCEPT !.bound_stream[g] = s]
    IN  [w2 EXCEPT !.saved_format[g] = copyfmt(@, w2.streams[s])]

\* void capture( stream_base& stream )
capture_2024(w, g, s) ==
    LET w1 == IF w.bound_stream[g] # nullptr
              THEN [w EXCEPT !.streams[w.bound_stream[g]] =
                                 copyfmt(@, w.saved_format[g])]
              ELSE w
        w2 == [w1 EXCEPT !.bound_stream[g] = s]
    IN  [w2 EXCEPT !.saved_format[g] = copyfmt(@, w2.streams[s])]

\* void restore()
restore_2024(w, g) ==
    IF w.bound_stream[g] # nullptr
    THEN [w EXCEPT !.streams[w.bound_stream[g]] = copyfmt(@, w.saved_format[g])]
    ELSE w

\* void release()
release_2024(w, g) == [w EXCEPT !.bound_stream[g] = nullptr]

\* stream_base* stream() const
stream_2024(w, g) == w.bound_stream[g]

\* ~basic_savefmt()
destroy_basic_savefmt_2024(w, g) == restore_2024(w, g)

\* operator>>( basic_istream& stream, basic_savefmt&& saver )
operator_extract_2024(w, s, saver) == [world |-> capture_2024(w, saver, s), ret |-> s]

\* operator<<( basic_ostream& stream, basic_savefmt&& saver )
operator_insert_2024(w, s, saver) == [world |-> capture_2024(w, saver, s), ret |-> s]

----------------------------------------------------------------------------
(* History of the bindings.                                                *)

NoBinding == [s |-> nullptr, fmt |-> 0]

\* The binding a bind of g to s makes: the configuration recorded is the one
\* s has when bound_stream is assigned.
Bind(g, s) ==
    [s |-> s,
     fmt |-> IF binding[g].s = s THEN binding[g].fmt ELSE Config(streams[s])]

Apply(w) ==
    /\ bound_stream' = w.bound_stream
    /\ saved_format' = w.saved_format
    /\ streams' = w.streams

Op(name, r, w) == [op |-> name, ret |-> r, chg |-> w.streams # streams]

\* The operation called name takes the world to w and returns r.
Do(name, r, w) ==
    /\ Apply(w)
    /\ last' = Op(name, r, w)

----------------------------------------------------------------------------
Init ==
    /\ live = [g \in Guards |-> FALSE]
    /\ bound_stream = [g \in Guards |-> nullptr]
    /\ saved_format = [g \in Guards |-> ios_init(nullptr)]
    /\ streams \in [Streams -> [fmt : Fmt, rdbuf : Streams]]
    /\ \A s \in Streams : streams[s].rdbuf = s
    /\ chain = nullptr
    /\ temps = <<>>
    /\ before = 0
    /\ last = Op("init", nullptr, World)
    /\ binding = [g \in Guards |-> NoBinding]

\* savefmt sf;
DefaultConstruct(g) ==
    /\ chain = nullptr
    /\ ~live[g]
    /\ live' = [live EXCEPT ![g] = TRUE]
    /\ Do("default_ctor", nullptr, basic_savefmt(World, g))
    /\ binding' = [binding EXCEPT ![g] = NoBinding]
    /\ UNCHANGED <<chain, temps, before>>

\* savefmt sf{ stream };
CapturingConstruct(g, s) ==
    /\ chain = nullptr
    /\ ~live[g]
    /\ live' = [live EXCEPT ![g] = TRUE]
    /\ Do("capturing_ctor", nullptr, basic_savefmt_stream(World, g, s))
    /\ binding' = [binding EXCEPT ![g] = Bind(g, s)]
    /\ UNCHANGED <<chain, temps, before>>

\* savefmt g = std::move( other );
MoveConstruct(g, other) ==
    /\ chain = nullptr
    /\ ~live[g]
    /\ live[other]
    /\ live' = [live EXCEPT ![g] = TRUE]
    /\ Do("move_ctor", nullptr, basic_savefmt_move(World, g, other))
    /\ binding' = [binding EXCEPT ![g] = binding[other], ![other] = NoBinding]
    /\ UNCHANGED <<chain, temps, before>>

\* g = std::move( other );
MoveAssign(g, other) ==
    /\ chain = nullptr
    /\ live[g]
    /\ live[other]
    /\ Do("move_assign", nullptr, operator_assign(World, g, other))
    /\ binding' = IF other # g
                  THEN [binding EXCEPT ![g] = binding[other], ![other] = NoBinding]
                  ELSE binding
    /\ UNCHANGED <<live, chain, temps, before>>

\* g.capture( stream );
Capture(g, s) ==
    /\ chain = nullptr
    /\ live[g]
    /\ Do("capture", nullptr, capture(World, g, s))
    /\ binding' = [binding EXCEPT ![g] = Bind(g, s)]
    /\ UNCHANGED <<live, chain, temps, before>>

\* g.restore( also_release );
Restore(g, also_release) ==
    /\ chain = nullptr
    /\ live[g]
    /\ Do(IF also_release THEN "restore_release" ELSE "restore", nullptr,
          restore(World, g, also_release))
    /\ binding' = IF also_release
                  THEN [binding EXCEPT ![g] = NoBinding]
                  ELSE binding
    /\ UNCHANGED <<live, chain, temps, before>>

\* g.release();
Release(g) ==
    /\ chain = nullptr
    /\ live[g]
    /\ Do("release", nullptr, release(World, g))
    /\ binding' = [binding EXCEPT ![g] = NoBinding]
    /\ UNCHANGED <<live, chain, temps, before>>

\* g.stream()
Stream(g) ==
    /\ chain = nullptr
    /\ live[g]
    /\ last' = Op("stream", stream(World, g), World)
    /\ UNCHANGED <<live, bound_stream, saved_format, streams, chain, temps, before, binding>>

\* The guard in slot g reaches the end of its lifetime: the destructor runs
\* and the object is gone.
Destroyed(w, g) ==
    LET w1 == destroy_basic_savefmt(w, g)
    IN  [w1 EXCEPT !.bound_stream[g] = nullptr,
                   !.saved_format[g] = ios_init(nullptr)]

\* A named guard leaves its scope (by return, or by an exception passing
\* through).
Destroy(g) ==
    /\ chain = nullptr
    /\ live[g]
    /\ live' = [live EXCEPT ![g] = FALSE]
    /\ Do("dtor", nullptr, Destroyed(World, g))
    /\ binding' = [binding EXCEPT ![g] = NoBinding]
    /\ UNCHANGED <<chain, temps, before>>

\* A statement (a manipulator, a member such as flags() or fill(), a callee)
\* sets the formatting parameters of stream s.
Mutate(s, f) ==
    /\ chain = nullptr
    /\ streams' = [streams EXCEPT ![s].fmt = f]
    /\ last' = Op("mutate", nullptr, World)
    /\ UNCHANGED <<live, bound_stream, saved_format, chain, temps, before, binding>>

\* ... << std::hex : a manipulator of the chain sets the formatting parameters
\* of the chain's stream.
ChainManip(f) ==
    /\ chain # nullptr
    /\ streams' = [streams EXCEPT ![chain].fmt = f]
    /\ last' = Op("manip", nullptr, World)
    /\ UNCHANGED <<live, bound_stream, saved_format, chain, temps, before, binding>>

\* A statement of the form  s << ... ;  or  s >> ... ;  begins.
ExprBegin(s) ==
    /\ chain = nullptr
    /\ chain' = s
    /\ before' = Config(streams[s])
    /\ last' = Op("expr_begin", nullptr, World)
    /\ UNCHANGED <<live, bound_stream, saved_format, streams, temps, binding>>

\* ... << basic_savefmt{} : a temporary is default-constructed in slot g and
\* handed to operator<< on the chain's stream.
TempInsert(g) ==
    /\ chain # nullptr
    /\ ~live[g]
    /\ LET r == operator_insert(basic_savefmt(World, g), chain, g)
       IN  Do("operator_insert", r.ret, r.world)
    /\ live' = [live EXCEPT ![g] = TRUE]
    /\ temps' = Append(temps, g)
    /\ binding' = [binding EXCEPT ![g] = Bind(g, chain)]
    /\ UNCHANGED <<chain, before>>

\* ... >> basic_savefmt{}
TempExtract(g) ==
    /\ chain # nullptr
    /\ ~live[g]
    /\ LET r == operator_extract(basic_savefmt(World, g), chain, g)
       IN  Do("operator_extract", r.ret, r.world)
    /\ live' = [live EXCEPT ![g] = TRUE]
    /\ temps' = Append(temps, g)
    /\ binding' = [binding EXCEPT ![g] = Bind(g, chain)]
    /\ UNCHANGED <<chain, before>>

\* The temporaries of a full expression are destroyed in reverse order of
\* their construction.
RECURSIVE DestroyTemps(_, _)
DestroyTemps(w, ts) ==
    IF ts = <<>>
    THEN w
    ELSE DestroyTemps(Destroyed(w, ts[Len(ts)]), SubSeq(ts, 1, Len(ts) - 1))

\* The end of the full expression.
FullExprEnd ==
    /\ chain # nullptr
    /\ Do("full_expr_end", nullptr, DestroyTemps(World, temps))
    /\ live' = [g \in Guards |-> live[g] /\ \A i \in 1..Len(temps) : temps[i] # g]
    /\ binding' = [g \in Guards |->
                     IF \E i \in 1..Len(temps) : temps[i] = g
                     THEN NoBinding ELSE binding[g]]
    /\ chain' = nullptr
    /\ temps' = <<>>
    /\ before' = 0

\* Statements on named guards.
Next ==
    \/ \E g \in Guards : DefaultConstruct(g)
    \/ \E g \in Guards, s \in Streams : CapturingConstruct(g, s)
    \/ \E g \in Guards, other \in Guards : MoveConstruct(g, other)
    \/ \E g \in Guards, other \in Guards : MoveAssign(g, other)
    \/ \E g \in Guards, s \in Streams : Capture(g, s)
    \/ \E g \in Guards, r \in BOOLEAN : Restore(g, r)
    \/ \E g \in Guards : Release(g)
    \/ \E g \in Guards : Stream(g)
    \/ \E g \in Guards : Destroy(g)
    \/ \E s \in Streams, f \in Fmt : Mutate(s, f)

Spec == Init /\ [][Next]_vars

\* Programs that bind guards with the capturing constructor only.
NextCtor ==
    \/ \E g \in Guards : DefaultConstruct(g)
    \/ \E g \in Guards, s \in Streams : CapturingConstruct(g, s)
    \/ \E g \in Guards, other \in Guards : MoveConstruct(g, other)
    \/ \E g \in Guards, other \in Guards : MoveAssign(g, other)
    \/ \E g \in Guards, r \in BOOLEAN : Restore(g, r)
    \/ \E g \in Guards : Release(g)
    \/ \E g \in Guards : Destroy(g)
    \/ \E s \in Streams, f \in Fmt : Mutate(s, f)

SpecCtor == Init /\ [][NextCtor]_vars

\* Programs that handle named guards by hand (construct, capture, restore,
\* release, query) and never move them.
NextManual ==
    \/ \E g \in Guards : DefaultConstruct(g)
    \/ \E g \in Guards, s \in Streams : CapturingConstruct(g, s)
    \/ \E g \in Guards, s \in Streams : Capture(g, s)
    \/ \E g \in Guards, r \in BOOLEAN : Restore(g, r)
    \/ \E g \in Guards : Release(g)
    \/ \E g \in Guards : Stream(g)
    \/ \E g \in Guards : Destroy(g)
    \/ \E s \in Streams, f \in Fmt : Mutate(s, f)

SpecManual == Init /\ [][NextManual]_vars

\* Chained expressions with temporary guards, among statements that
\* construct and destroy named guards and change the streams.
NextExpr ==
    \/ \E g \in Guards, s \in Streams : CapturingConstruct(g, s)
    \/ \E g \in Guards : Destroy(g)
    \/ \E s \in Streams, f \in Fmt : Mutate(s, f)
    \/ \E s \in Streams : ExprBegin(s)
    \/ \E f \in Fmt : ChainManip(f)
    \/ \E g \in Guards : TempInsert(g)
    \/ \E g \in Guards : TempExtract(g)
    \/ FullExprEnd

SpecExpr == Init /\ [][NextExpr]_vars

----------------------------------------------------------------------------
(* Programs built against the 2023 revision.  An exception thrown by a     *)
(* member function reaches the calling statement, which is recorded in     *)
(* last.op; the program goes on (the caller catches it, or the guards are  *)
(* destroyed as it passes through their scopes).                           *)

\* savefmt sf;
DefaultConstruct_2023(g) ==
    /\ chain = nullptr
    /\ ~live[g]
    /\ live' = [live EXCEPT ![g] = TRUE]
    /\ Do("default_ctor", nullptr, basic_savefmt_2023(World, g))
    /\ binding' = [binding EXCEPT ![g] = NoBinding]
    /\ UNCHANGED <<chain, temps, before>>

\* savefmt sf{ stream };
CapturingConstruct_2023(g, s) ==
    /\ chain = nullptr
    /\ ~live[g]
    /\ live' = [live EXCEPT ![g] = TRUE]
    /\ Do("capturing_ctor", nullptr, basic_savefmt_stream_2023(World, g, s))
    /\ binding' = [binding EXCEPT ![g] = Bind(g, s)]
    /\ UNCHANGED <<chain, temps, before>>

\* savefmt g = std::move( other );
MoveConstruct_2023(g, other) ==
    /\ chain = nullptr
    /\ ~live[g]
    /\ live[other]
    /\ live' = [live EXCEPT ![g] = TRUE]
    /\ Do("move_ctor", nullptr, basic_savefmt_move_2023(World, g, other))
    /\ binding' = [binding EXCEPT ![g] = binding[other], ![other] = NoBinding]
    /\ UNCHANGED <<chain, temps, before>>

\* g = std::move( other );
MoveAssign_2023(g, other) ==
    /\ chain = nullptr
    /\ live[g]
    /\ live[other]
    /\ Do("move_assign", nullptr, operator_assign_2023(World, g, other))
    /\ binding' = IF other # g
                  THEN [binding EXCEPT ![g] = binding[other], ![other] = NoBinding]
                  ELSE binding
    /\ UNCHANGED <<live, chain, temps, before>>

\* g.capture( stream );
Capture_2023(g, s) ==
    /\ chain = nullptr
    /\ live[g]
    /\ LET o == capture_2023(World, g, s)
       IN  /\ Do(IF o.thrown THEN "capture_throw" ELSE "capture", nullptr, o.world)
           /\ binding' = IF o.thrown THEN binding
                         ELSE [binding EXCEPT ![g] = Bind(g, s)]
    /\ UNCHANGED <<live, chain, temps, before>>

\* g.restore();
Restore_2023(g) ==
    /\ chain = nullptr
    /\ live[g]
    /\ LET o == restore_2023(World, g)
       IN  Do(IF o.thrown THEN "restore_throw" ELSE "restore", nullptr, o.world)
    /\ UNCHANGED <<live, chain, temps, before, binding>>

\* g.release();
Release_2023(g) ==
    /\ chain = nullptr
    /\ live[g]
    /\ Do("release", nullptr, release_2023(World, g))
    /\ binding' = [binding EXCEPT ![g] = NoBinding]
    /\ UNCHANGED <<live, chain, temps, before>>

\* A named guard leaves its scope: the destructor runs and the object is
\* gone.
Destroy_2023(g) ==
    /\ chain = nullptr
    /\ live[g]
    /\ live' = [live EXCEPT ![g] = FALSE]
    /\ LET o == destroy_basic_savefmt_2023(World, g)
       IN  Do(IF o.thrown THEN "dtor_throw" ELSE "dtor", nullptr,
              [o.world EXCEPT !.bound_stream[g] = nullptr,
                              !.saved_format[g] = ios_init(nullptr)])
    /\ binding' = [binding EXCEPT ![g] = NoBinding]
    /\ UNCHANGED <<chain, temps, before>>

Next_2023 ==
    \/ \E g \in Guards : DefaultConstruct_2023(g)
    \/ \E g \in Guards, s \in Streams : CapturingConstruct_2023(g, s)
    \/ \E g \in Guards, other \in Guards : MoveConstruct_2023(g, other)
    \/ \E g \in Guards, other \in Guards : MoveAssign_2023(g, other)
    \/ \E g \in Guards, s \in Streams : Capture_2023(g, s)
    \/ \E g \in Guards : Restore_2023(g)
    \/ \E g \in Guards : Release_2023(g)
    \/ \E g \in Guards : Destroy_2023(g)
    \/ \E s \in Streams, f \in Fmt : Mutate(s, f)

Spec_2023 == Init /\ [][Next_2023]_vars

\* Programs that construct, capture, restore, release, move and destroy
\* named guards and change streams (2025 revision).
NextOps ==
    \/ \E g \in Guards : DefaultConstruct(g)
    \/ \E g \in Guards, s \in Streams : CapturingConstruct(g, s)
    \/ \E g \in Guards, other \in Guards : MoveConstruct(g, other)
    \/ \E g \in Guards, other \in Guards : MoveAssign(g, other)
    \/ \E g \in Guards, s \in Streams : Capture(g, s)
    \/ \E g \in Guards, r \in BOOLEAN : Restore(g, r)
    \/ \E g \in Guards : Release(g)
    \/ \E g \in Guards : Destroy(g)
    \/ \E s \in Streams, f \in Fmt : Mutate(s, f)

SpecOps == Init /\ [][NextOps]_vars

----------------------------------------------------------------------------
(* Properties.                                                             *)

Bound(g) == live[g] /\ bound_stream[g] # nullptr

BoundTo(s) == {g \in Guards : live[g] /\ bound_stream[g] = s}

IsTemp(g) == \E i \in 1..Len(temps) : temps[i] = g

\* The step just taken is one of the operations named in ops.
Did(ops) == last'.op \in ops

\* C1: a guard made by the capturing constructor on stream S with
\* configuration C, then any changes of S, then restore() (with or without
\* release): S has configuration C again.  Stated of every call of restore()
\* that a program binding with the capturing constructor only can make:
\* there the configuration recorded with a binding is the one the stream had
\* at that constructor.
C1_RoundTrip ==
    \A g \in Guards, r \in BOOLEAN :
        Bound(g) =>
            Config(restore(World, g, r).streams[bound_stream[g]]) = binding[g].fmt

\* A restore() that had to change its stream back has acted.
C1_Witness ==
    /\ last.op = "restore"
    /\ last.chg
    /\ \E g \in Guards :
          Bound(g) /\ Config(streams[bound_stream[g]]) = binding[g].fmt

\* C2: when a guard still bound to S is destroyed, S gets the configuration
\* it had when the guard's binding was made, whatever happened to S since.
\* Stated of the destructor run on any bound guard of a reachable state.
C2_DestructorRestores ==
    \A g \in Guards :
        Bound(g) =>
            Config(destroy_basic_savefmt(World, g).streams[bound_stream[g]])
                = binding[g].fmt

\* A destructor that had to change its stream back has run.
C2_Witness ==
    /\ last.op = "dtor"
    /\ last.chg
    /\ \E g \in Guards : ~live[g]

C4_CaptureSnapshotsAtCall ==
    \A g \in Guards, s \in Streams :
        live[g] =>
            LET w == capture(World, g, s)
            IN  /\ w.bound_stream[g] = s
                /\ Config(w.saved_format[g]) = Config(streams[s])

\* C4 (amended): after capture(stream) the guard is bound to stream, and
\* saved_state is the configuration stream had when capture was called,
\* except when the guard was already bound to that same stream: then
\* saved_state is the snapshot the guard already held.
C4_CapturePostcondition ==
    \A g \in Guards, s \in Streams :
        live[g] =>
            LET w == capture(World, g, s)
            IN  /\ w.bound_stream[g] = s
                /\ Config(w.saved_format[g]) =
                       IF bound_stream[g] = s
                       THEN Config(saved_format[g])
                       ELSE Config(streams[s])

\* A capture whose restore-before-rebind step changed a stream has acted.
C4_Witness ==
    /\ last.op = "capture"
    /\ last.chg
    /\ \E g \in Guards :
          Bound(g) /\ Config(saved_format[g]) = Config(streams[bound_stream[g]])

\* C5: capture(T) on a guard bound to S first puts the held snapshot back
\* on S and only then binds to T and snapshots T: S ends with the
\* configuration recorded at the earlier bind, the new snapshot is the
\* configuration T has after the call, and for S # T the call leaves T and
\* every other stream unchanged.
C5_RestoreBeforeRebind ==
    \A g \in Guards, t \in Streams :
        Bound(g) =>
            LET w == capture(World, g, t)
                S == bound_stream[g]
            IN  /\ w.bound_stream[g] = t
                /\ Config(w.saved_format[g]) = Config(w.streams[t])
                /\ Config(w.streams[S]) = binding[g].fmt
                /\ \A u \in Streams \ {S} : w.streams[u] = streams[u]

\* A capture has put a snapshot back, and two streams differ afterwards.
C5_Witness ==
    /\ last.op = "capture"
    /\ last.chg
    /\ \E g \in Guards, u \in Streams :
          /\ Bound(g)
          /\ u # bound_stream[g]
          /\ Config(streams[u]) # Config(streams[bound_stream[g]])

C7_MoveTransfersBinding ==
    \A g \in Guards, other \in Guards :
        (other # g /\ live[other]) =>
            LET w == IF live[g]
                     THEN operator_assign(World, g, other)
                     ELSE basic_savefmt_move(World, g, other)
            IN  /\ stream(w, other) = nullptr
                /\ stream(w, g) = stream(World, other)

\* A move construction has left one guard bound and another one unbound.
C7_Witness ==
    /\ last.op = "move_ctor"
    /\ \E g \in Guards, other \in Guards :
          /\ g # other /\ live[g] /\ live[other]
          /\ stream(World, g) # nullptr
          /\ stream(World, other) = nullptr

\* C8: a move construction or move assignment changes no stream.
C8_MoveRestoresNothing ==
    last.op \in {"move_ctor", "move_assign"} => ~last.chg

\* A move assignment has happened while a bound guard's stream differs from
\* the guard's snapshot.
C8_Witness ==
    /\ last.op = "move_assign"
    /\ \E g \in Guards :
          Bound(g) /\ Config(streams[bound_stream[g]]) # Config(saved_format[g])

\* C9: a move of a bound guard carries the snapshot: the destination's
\* saved_format is the source's, a later restore() or destruction of a bound
\* guard sets its stream to the configuration recorded with the binding, and
\* the destruction of an unbound (moved-from) guard changes nothing.
C9_MoveCarriesSnapshot ==
    /\ \A g \in Guards, other \in Guards :
          (other # g /\ Bound(other)) =>
              LET w == IF live[g]
                       THEN operator_assign(World, g, other)
                       ELSE basic_savefmt_move(World, g, other)
              IN  /\ Config(w.saved_format[g]) = Config(saved_format[other])
                  /\ Config(w.saved_format[g]) = binding[other].fmt
    /\ \A g \in Guards, r \in BOOLEAN :
          Bound(g) =>
              /\ Config(restore(World, g, r).streams[bound_stream[g]])
                     = Config(saved_format[g])
              /\ Config(destroy_basic_savefmt(World, g).streams[bound_stream[g]])
                     = Config(saved_format[g])
    /\ \A g \in Guards :
          (live[g] /\ ~Bound(g)) =>
              destroy_basic_savefmt(World, g).streams = streams

\* A move construction has handed over a snapshot that differs from what
\* the stream has now.
C9_Witness ==
    /\ last.op = "move_ctor"
    /\ \E g \in Guards, other \in Guards :
          /\ g # other /\ live[other] /\ ~Bound(other) /\ Bound(g)
          /\ Config(saved_format[g]) = Config(saved_format[other])
          /\ Config(saved_format[g]) # Config(streams[bound_stream[g]])

\* C10: no move construction and no move assignment raises the number of
\* live guards bound to a stream, for any stream and any pair of guards, so
\* no sequence of moves does: a binding is handed on, never duplicated.
C10_BindingNeverDuplicated ==
    \A g \in Guards, other \in Guards :
        live[other] =>
            LET w == IF live[g]
                     THEN operator_assign(World, g, other)
                     ELSE basic_savefmt_move(World, g, other)
            IN  \A s \in Streams :
                    Cardinality({h \in Guards :
                                    (live[h] \/ h = g) /\ w.bound_stream[h] = s})
                        <= Cardinality(BoundTo(s))

\* After a move assignment two guards are live and exactly one is bound.
C10_Witness ==
    /\ last.op = "move_assign"
    /\ Cardinality({g \in Guards : live[g]}) = 2
    /\ Cardinality({g \in Guards : Bound(g)}) = 1

\* The world after a statement has set the formatting parameters of stream s
\* to f (what Mutate does to streams).
Mutated(w, s, f) == [w EXCEPT !.streams[s].fmt = f]

\* The world after g has been move-constructed from other (g not yet live)
\* or move-assigned from other (g live).
Moved(g, other) ==
    IF live[g]
    THEN operator_assign(World, g, other)
    ELSE basic_savefmt_move(World, g, other)

\* C11: release() unbinds the guard and changes no stream; the destructor
\* and restore() (with or without release) of the released guard leave every
\* stream as it is, mutations made while the guard was bound included.
C11_ReleaseDisarms ==
    \A g \in Guards :
        live[g] =>
            LET w == release(World, g)
            IN  /\ stream(w, g) = nullptr
                /\ w.streams = streams
                /\ w.saved_format = saved_format
                /\ destroy_basic_savefmt(w, g).streams = streams
                /\ \A r \in BOOLEAN : restore(w, g, r).streams = streams

\* release() has acted on the only live guard, which holds a snapshot that
\* differs from the configuration of every stream.
C11_Witness ==
    /\ last.op = "release"
    /\ Cardinality({g \in Guards : live[g]}) = 1
    /\ \E g \in Guards :
          /\ live[g] /\ ~Bound(g)
          /\ \A s \in Streams : Config(streams[s]) # Config(saved_format[g])

\* C12: for a bound guard a second restore() right after the first changes
\* nothing (streams and guard are as after the first), restore() leaves the
\* snapshot as it was, and a restore() after any change of the bound stream
\* sets it to the same configuration again: the one recorded with the
\* binding.
C12_IdempotentRestore ==
    \A g \in Guards :
        Bound(g) =>
            LET w1 == restore(World, g, FALSE)
                S == bound_stream[g]
            IN  /\ restore(w1, g, FALSE) = w1
                /\ w1.saved_format = saved_format
                /\ Config(w1.streams[S]) = binding[g].fmt
                /\ \A f \in Fmt :
                      Config(restore(Mutated(w1, S, f), g, FALSE).streams[S])
                          = Config(w1.streams[S])

\* A restore() has found its stream already at the snapshot: every live
\* guard is bound and its stream has the guard's snapshot.
C12_Witness ==
    /\ last.op = "restore"
    /\ ~last.chg
    /\ \E g \in Guards : live[g]
    /\ \A g \in Guards :
          live[g] =>
              Bound(g) /\ Config(streams[bound_stream[g]]) = Config(saved_format[g])

\* C13: restore(false) changes neither bound_stream nor saved_format, so the
\* guard stays bound or unbound as it was, and a bound guard puts the same
\* snapshot back on a later restore() or on destruction, whatever happened to
\* its stream in between.
C13_RestoreKeepsArmed ==
    \A g \in Guards :
        live[g] =>
            LET w == restore(World, g, FALSE)
                S == bound_stream[g]
            IN  /\ w.bound_stream = bound_stream
                /\ w.saved_format = saved_format
                /\ Bound(g) =>
                      \A f \in Fmt :
                          LET wm == Mutated(w, S, f)
                          IN  /\ Config(restore(wm, g, FALSE).streams[S])
                                     = Config(saved_format[g])
                              /\ Config(destroy_basic_savefmt(wm, g).streams[S])
                                     = Config(saved_format[g])

\* A restore() without release has changed a stream, and every live guard
\* is (still) bound.
C13_Witness ==
    /\ last.op = "restore"
    /\ last.chg
    /\ \E g \in Guards : live[g]
    /\ \A g \in Guards : live[g] => Bound(g)

\* C14: restore(true) on a bound guard sets the bound stream to the snapshot
\* and unbinds: stream() is null, and afterwards neither restore() nor the
\* destructor changes any stream, whatever the stream has become.
C14_RestoreWithRelease ==
    \A g \in Guards :
        Bound(g) =>
            LET w == restore(World, g, TRUE)
                S == bound_stream[g]
            IN  /\ Config(w.streams[S]) = Config(saved_format[g])
                /\ Config(w.streams[S]) = binding[g].fmt
                /\ stream(w, g) = nullptr
                /\ \A f \in Fmt :
                      LET wm == Mutated(w, S, f)
                      IN  /\ \A r \in BOOLEAN : restore(wm, g, r).streams = wm.streams
                          /\ destroy_basic_savefmt(wm, g).streams = wm.streams

\* A restore(true) has changed a stream back and left its guard unbound,
\* with the stream at the guard's snapshot.
C14_Witness ==
    /\ last.op = "restore_release"
    /\ last.chg
    /\ \E g \in Guards, s \in Streams :
          /\ live[g] /\ ~Bound(g)
          /\ Config(streams[s]) = Config(saved_format[g])
          /\ Config(saved_format[g]) # Config(ios_init(nullptr))

\* C15: on an unbound guard restore(false), restore(true) and the destructor
\* leave the guard unbound and change nothing at all: no stream, no guard.
C15_LenientUnbound ==
    \A g \in Guards :
        (live[g] /\ ~Bound(g)) =>
            /\ \A r \in BOOLEAN :
                  /\ restore(World, g, r) = World
                  /\ stream(restore(World, g, r), g) = nullptr
            /\ destroy_basic_savefmt(World, g) = World

\* A restore() has acted while no live guard is bound, and one of them holds
\* a snapshot that differs from the configuration of every stream.
C15_Witness ==
    /\ last.op = "restore"
    /\ \A g \in Guards : ~Bound(g)
    /\ \E g \in Guards :
          /\ live[g]
          /\ \A s \in Streams : Config(streams[s]) # Config(saved_format[g])

\* C16: default construction yields an unbound guard (stream() is null) and
\* touches no stream and no other guard.
C16_DefaultConstruction ==
    \A g \in Guards :
        ~live[g] =>
            LET w == basic_savefmt(World, g)
            IN  /\ stream(w, g) = nullptr
                /\ w.streams = streams
                /\ \A h \in Guards \ {g} :
                      /\ w.bound_stream[h] = bound_stream[h]
                      /\ w.saved_format[h] = saved_format[h]

\* A guard has just been default-constructed, alone, next to a stream whose
\* configuration is not the default one.
C16_Witness ==
    /\ last.op = "default_ctor"
    /\ Cardinality({g \in Guards : live[g]}) = 1
    /\ \E g \in Guards :
          live[g] /\ stream(World, g) = nullptr /\ saved_format[g] = ios_init(nullptr)
    /\ \E s \in Streams : Config(streams[s]) # Config(ios_init(nullptr))

\* C17: the capturing constructor binds the new guard to the given stream
\* (stream() returns it), stores the stream's current configuration in
\* saved_format, and leaves every stream as it is.
C17_CapturingConstructor ==
    \A g \in Guards, s \in Streams :
        ~live[g] =>
            LET w == basic_savefmt_stream(World, g, s)
            IN  /\ stream(w, g) = s
                /\ Config(w.saved_format[g]) = Config(streams[s])
                /\ w.streams = streams

\* A guard has just been constructed, alone, on a stream whose configuration
\* is not the default one, and holds that configuration.
C17_Witness ==
    /\ last.op = "capturing_ctor"
    /\ Cardinality({g \in Guards : live[g]}) = 1
    /\ \E g \in Guards :
          /\ Bound(g)
          /\ Config(saved_format[g]) = Config(streams[bound_stream[g]])
          /\ Config(saved_format[g]) # Config(ios_init(nullptr))

\* C18: move assignment of a guard to itself changes nothing: bound_stream,
\* saved_format and every stream are as before.
C18_SelfMoveAssign ==
    \A g \in Guards :
        live[g] => operator_assign(World, g, g) = World

\* A move assignment has happened with one live guard only (so to itself),
\* and that guard is bound and holds a snapshot that differs from what its
\* stream has now.
C18_Witness ==
    /\ last.op = "move_assign"
    /\ Cardinality({g \in Guards : live[g]}) = 1
    /\ \E g \in Guards :
          Bound(g) /\ Config(saved_format[g]) # Config(streams[bound_stream[g]])

\* The binding state of guard g in world w.
State(w, g) == IF w.bound_stream[g] = nullptr THEN "UNBOUND" ELSE "BOUND"

\* The transitions of C19 that do not depend on the reading of "move-in".
TransitionsButMoveIn ==
    /\ \A g \in Guards :
          ~live[g] =>
              /\ State(basic_savefmt(World, g), g) = "UNBOUND"
              /\ \A s \in Streams :
                    State(basic_savefmt_stream(World, g, s), g) = "BOUND"
    /\ \A g \in Guards :
          live[g] =>
              /\ State(release(World, g), g) = "UNBOUND"
              /\ \A s \in Streams : State(capture(World, g, s), g) = "BOUND"
              /\ State(restore(World, g, FALSE), g) = State(World, g)
              /\ State(restore(World, g, TRUE), g) = "UNBOUND"
    /\ \A g \in Guards, other \in Guards :
          (other # g /\ live[other]) =>
              State(Moved(g, other), other) = "UNBOUND"

\* C19 (as stated): default construction, release(), being the source of a
\* move and restore on an unbound guard leave the guard UNBOUND; the
\* capturing constructor, capture() and being the destination of a move
\* leave it BOUND; restore(false) keeps the state; restore(true) ends
\* UNBOUND.
C19_TransitionTable ==
    /\ TransitionsButMoveIn
    /\ \A g \in Guards, other \in Guards :
          (other # g /\ live[other]) => State(Moved(g, other), g) = "BOUND"

\* C19 (amended): as stated, except that the destination of a move ends in
\* the state the source was in: BOUND when the source was bound, UNBOUND
\* when it was not.
C19_StateMachine ==
    /\ TransitionsButMoveIn
    /\ \A g \in Guards, other \in Guards :
          (other # g /\ live[other]) =>
              State(Moved(g, other), g) = State(World, other)

\* A guard has been move-constructed from an unbound source: two guards are
\* live and neither is bound.
C19_Witness ==
    /\ last.op = "move_ctor"
    /\ Cardinality({g \in Guards : live[g]}) >= 2
    /\ \A g \in Guards : live[g] => State(World, g) = "UNBOUND"

\* C20: stream() returns the stream recorded with the guard's binding when
\* the guard is bound and null otherwise, in every reachable state; a call
\* of stream() changes no guard and no stream and returns that value; and
\* the 2023 revision's operator bool is true exactly when its stream() is
\* not null.
C20_StreamQuery ==
    /\ [](\A g \in Guards :
             live[g] =>
                 /\ stream(World, g) = binding[g].s
                 /\ operator_bool_2023(World, g) <=> (stream_2023(World, g) # nullptr)
                 /\ stream_2023(World, g) = stream(World, g))
    /\ [][Did({"stream"}) =>
             /\ UNCHANGED <<live, bound_stream, saved_format, streams, binding>>
             /\ \E g \in Guards : Stream(g) /\ last'.ret = binding[g].s]_vars

\* stream() has just returned a stream while another live guard is unbound.
C20_Witness ==
    /\ last.op = "stream"
    /\ last.ret # nullptr
    /\ \E g \in Guards : Bound(g) /\ bound_stream[g] = last.ret
    /\ \E g \in Guards : live[g] /\ ~Bound(g)

\* C21: in the 2023 revision restore() on an unbound guard throws
\* basic_savefmt::exception to its caller and leaves the guard unbound, its
\* saved_format and every stream as they were; restore() on a bound guard
\* does not throw and puts the snapshot back.
C21_StrictRestoreThrows ==
    /\ \A g \in Guards :
          live[g] =>
              LET o == restore_2023(World, g)
              IN  IF Bound(g)
                  THEN /\ ~o.thrown
                       /\ Config(o.world.streams[bound_stream[g]])
                              = Config(saved_format[g])
                  ELSE /\ o.thrown
                       /\ o.world = World
                       /\ stream_2023(o.world, g) = nullptr
    /\ last.op = "restore_throw" => ~last.chg

\* A restore() has thrown, on the only live guard, which holds a snapshot
\* that differs from the configuration of every stream.
C21_Witness ==
    /\ last.op = "restore_throw"
    /\ Cardinality({g \in Guards : live[g]}) = 1
    /\ \E g \in Guards :
          /\ live[g] /\ ~Bound(g)
          /\ \A s \in Streams : Config(streams[s]) # Config(saved_format[g])

\* C22: in the 2023 revision no destructor throws: the destructor of an
\* unbound guard changes nothing, the destructor of a bound guard puts the
\* snapshot back on its stream and leaves the other streams alone, and no
\* step of a program is a destructor left by an exception.
C22_StrictDestructorNeverThrows ==
    /\ \A g \in Guards :
          live[g] =>
              LET o == destroy_basic_savefmt_2023(World, g)
              IN  /\ ~o.thrown
                  /\ ~Bound(g) => o.world = World
                  /\ Bound(g) =>
                        /\ Config(o.world.streams[bound_stream[g]])
                               = Config(saved_format[g])
                        /\ \A u \in Streams \ {bound_stream[g]} :
                              o.world.streams[u] = streams[u]
    /\ last.op # "dtor_throw"

\* The last guard has been destroyed without changing a stream, while no
\* stream has the default configuration.
C22_Witness ==
    /\ last.op = "dtor"
    /\ ~last.chg
    /\ \A g \in Guards : ~live[g]
    /\ \A s \in Streams : Config(streams[s]) # Config(ios_init(nullptr))

\* C23: release() twice gives the state release() once gives; on a guard
\* that is already unbound it changes nothing; it always leaves the guard
\* unbound, the snapshot holder untouched and every stream untouched.
C23_ReleaseIdempotent ==
    \A g \in Guards :
        live[g] =>
            LET w == release(World, g)
            IN  /\ release(w, g) = w
                /\ stream(w, g) = nullptr
                /\ w.saved_format = saved_format
                /\ w.streams = streams
                /\ ~Bound(g) => w = World

\* release() has acted on the only live guard, which holds no snapshot (it
\* was never bound, or bound to a stream in its default configuration),
\* while no stream has the default configuration.
C23_Witness ==
    /\ last.op = "release"
    /\ Cardinality({g \in Guards : live[g]}) = 1
    /\ \E g \in Guards :
          live[g] /\ ~Bound(g) /\ saved_format[g] = ios_init(nullptr)
    /\ \A s \in Streams : Config(streams[s]) # Config(ios_init(nullptr))

\* C24 (as stated): move assignment of a distinct guard A into a guard B
\* bound to S changes no stream, B no longer refers to S, and afterwards no
\* restore() or destruction of A or B writes S.
C24_DestinationLeavesStream ==
    \A a \in Guards, b \in Guards :
        (a # b /\ live[a] /\ Bound(b)) =>
            LET w == operator_assign(World, b, a)
                S == bound_stream[b]
            IN  /\ w.streams = streams
                /\ stream(w, b) # S
                /\ \A h \in {a, b} :
                      /\ destroy_basic_savefmt(w, h).streams[S] = streams[S]
                      /\ \A r \in BOOLEAN : restore(w, h, r).streams[S] = streams[S]

\* C24 (amended): move assignment of a distinct guard A into a guard B bound
\* to S changes no stream; afterwards B holds exactly the binding and the
\* snapshot A had and A is unbound, so B's earlier binding is gone without
\* having been restored.  When A was not bound to S, B no longer refers to S
\* and no restore() or destruction of A or B writes S; when A was bound to
\* S too, B refers to S with A's snapshot, and that is what B puts back.
C24_MoveAssignDiscards ==
    \A a \in Guards, b \in Guards :
        (a # b /\ live[a] /\ Bound(b)) =>
            LET w == operator_assign(World, b, a)
                S == bound_stream[b]
            IN  /\ w.streams = streams
                /\ stream(w, b) = stream(World, a)
                /\ Config(w.saved_format[b]) = Config(saved_format[a])
                /\ stream(w, a) = nullptr
                /\ destroy_basic_savefmt(w, a).streams = streams
                /\ \A r \in BOOLEAN : restore(w, a, r).streams = streams
                /\ stream(World, a) # S =>
                      /\ stream(w, b) # S
                      /\ destroy_basic_savefmt(w, b).streams[S] = streams[S]
                      /\ \A r \in BOOLEAN : restore(w, b, r).streams[S] = streams[S]
                /\ stream(World, a) = S =>
                      Config(destroy_basic_savefmt(w, b).streams[S])
                          = Config(saved_format[a])

\* After a move assignment one guard is bound and another, moved-from, holds
\* the same snapshot; the bound stream's configuration differs from it.
C24_Witness ==
    /\ last.op = "move_assign"
    /\ \E a \in Guards, b \in Guards :
          /\ a # b /\ live[a] /\ ~Bound(a) /\ Bound(b)
          /\ saved_format[a] = saved_format[b]
          /\ Config(streams[bound_stream[b]]) # Config(saved_format[b])

\* The orders in which the guards of set B can be destroyed: o[Len(o)] is
\* destroyed first, o[1] last.
Orders(B) ==
    {o \in [1..Cardinality(B) -> B] :
        \A i, j \in 1..Cardinality(B) : i # j => o[i] # o[j]}

\* C25: when all guards bound to a stream S are destroyed, in any order, S
\* ends with the snapshot of the guard destroyed last, which is the
\* configuration S had when that guard's binding was made: for guards bound
\* one after the other and destroyed in reverse order, the configuration S
\* had before the first was bound.
C25_LastDestroyedWins ==
    \A s \in Streams :
        \A o \in Orders(BoundTo(s)) :
            BoundTo(s) # {} =>
                LET w == DestroyTemps(World, o)
                IN  /\ Config(w.streams[s]) = Config(saved_format[o[1]])
                    /\ Config(w.streams[s]) = binding[o[1]].fmt

\* A destructor has changed a stream, and the one guard still alive is
\* bound to a stream whose configuration differs from the guard's snapshot.
C25_Witness ==
    /\ last.op = "dtor"
    /\ last.chg
    /\ Cardinality({g \in Guards : live[g]}) = 1
    /\ \E g \in Guards :
          Bound(g) /\ Config(streams[bound_stream[g]]) # Config(saved_format[g])

\* Every stream other than S is in w as it is now.
Untouched(w, S) == \A u \in Streams \ {S} : w.streams[u] = streams[u]

\* C26: every guard operation changes at most the stream the guard is bound
\* to when the operation starts: constructors, release(), moves and the
\* chain operators on a fresh temporary change no stream; capture(),
\* restore() and the destructor leave every other stream as it is, so
\* capture(T) on a guard not bound to T leaves T unchanged.
C26_WriteFrame ==
    /\ \A g \in Guards :
          ~live[g] =>
              /\ basic_savefmt(World, g).streams = streams
              /\ \A s \in Streams :
                    /\ basic_savefmt_stream(World, g, s).streams = streams
                    /\ operator_insert(basic_savefmt(World, g), s, g).world.streams
                           = streams
                    /\ operator_extract(basic_savefmt(World, g), s, g).world.streams
                           = streams
    /\ \A g \in Guards :
          live[g] =>
              /\ \A s \in Streams : Untouched(capture(World, g, s), bound_stream[g])
              /\ \A r \in BOOLEAN : Untouched(restore(World, g, r), bound_stream[g])
              /\ Untouched(destroy_basic_savefmt(World, g), bound_stream[g])
              /\ release(World, g).streams = streams
    /\ \A g \in Guards, other \in Guards :
          live[other] => Moved(g, other).streams = streams

\* A restore() has changed a stream while another stream has a
\* configuration that differs from the restoring guard's snapshot.
C26_Witness ==
    /\ last.op = "restore"
    /\ last.chg
    /\ \E g \in Guards, u \in Streams :
          /\ Bound(g) /\ u # bound_stream[g]
          /\ Config(streams[bound_stream[g]]) = Config(saved_format[g])
          /\ Config(streams[u]) # Config(saved_format[g])

\* C27: the snapshot is the guard's own copy.  A bound guard's snapshot is
\* the configuration its stream had when the binding was made, whatever
\* happened to the stream since; restore(), release(), the destructor and
\* being the source of a move leave every snapshot as it is; and in every
\* step the snapshot of a guard changes only by capture() or as the
\* destination of a move assignment, a new guard's snapshot is set only by
\* the capturing constructor or the move constructor, and stream(),
\* restore(), release() and changes of a stream change no snapshot.
C27_OwnedSnapshot ==
    /\ [](\A g \in Guards :
             /\ Bound(g) => Config(saved_format[g]) = binding[g].fmt
             /\ live[g] =>
                   /\ \A r \in BOOLEAN : restore(World, g, r).saved_format = saved_format
                   /\ release(World, g).saved_format = saved_format
                   /\ destroy_basic_savefmt(World, g).saved_format = saved_format
                   /\ \A h \in Guards \ {g} :
                         LET w == Moved(h, g)
                         IN  \A k \in Guards \ {h} :
                                 w.saved_format[k] = saved_format[k])
    /\ [][/\ Did({"stream", "restore", "restore_release", "release", "mutate"})
                => UNCHANGED saved_format
          /\ saved_format' # saved_format =>
                \A g \in Guards :
                    /\ (live[g] /\ live'[g] /\ saved_format'[g] # saved_format[g])
                           => /\ Did({"capture", "move_assign"})
                              /\ \A h \in Guards \ {g} :
                                    saved_format'[h] = saved_format[h]
                    /\ (~live[g] /\ live'[g] /\ saved_format'[g] # ios_init(nullptr))
                           => Did({"capturing_ctor", "move_ctor"})]_vars

\* A stream has just been changed while every live guard is bound to a
\* stream whose configuration differs from the guard's snapshot.
C27_Witness ==
    /\ last.op = "mutate"
    /\ \E g \in Guards : live[g]
    /\ \A g \in Guards :
          live[g] =>
              /\ Bound(g)
              /\ Config(streams[bound_stream[g]]) # Config(saved_format[g])
              /\ Config(saved_format[g]) = binding[g].fmt

\* C28: the 2024 revision and the 2025 revision agree operation by
\* operation: from every reachable state, each of construction, capture,
\* restore(), release, move and destruction gives the same bindings,
\* snapshots and stream configurations in both (restore() of 2024 being
\* restore without release of 2025), and stream() answers the same.  Both
\* start from the same state, so they agree on every sequence.
C28_LenientRevisionsAgree ==
    /\ \A g \in Guards :
          ~live[g] =>
              /\ basic_savefmt_2024(World, g) = basic_savefmt(World, g)
              /\ \A s \in Streams :
                    basic_savefmt_stream_2024(World, g, s)
                        = basic_savefmt_stream(World, g, s)
              /\ \A other \in Guards :
                    live[other] =>
                        basic_savefmt_move_2024(World, g, other)
                            = basic_savefmt_move(World, g, other)
    /\ \A g \in Guards :
          live[g] =>
              /\ \A s \in Streams : capture_2024(World, g, s) = capture(World, g, s)
              /\ restore_2024(World, g) = restore(World, g, FALSE)
              /\ release_2024(World, g) = release(World, g)
              /\ stream_2024(World, g) = stream(World, g)
              /\ destroy_basic_savefmt_2024(World, g) = destroy_basic_savefmt(World, g)
              /\ \A other \in Guards :
                    live[other] =>
                        operator_assign_2024(World, g, other)
                            = operator_assign(World, g, other)

\* A capture has changed a stream, and now every guard is alive and bound
\* and two of them are bound to the same stream.
C28_Witness ==
    /\ last.op = "capture"
    /\ last.chg
    /\ \A g \in Guards : Bound(g)
    /\ \E g \in Guards, h \in Guards : g # h /\ bound_stream[g] = bound_stream[h]

\* C29: in every state the 2023 revision reaches, each operation other than
\* restore() on an unbound guard raises nothing and gives the bindings,
\* snapshots and stream configurations the lenient operation gives;
\* restore() on a bound guard included.  No capture and no destructor of a
\* 2023 run has raised.
C29_StrictAgreesWithLenient ==
    /\ \A g \in Guards :
          ~live[g] =>
              /\ basic_savefmt_2023(World, g) = basic_savefmt(World, g)
              /\ \A s \in Streams :
                    basic_savefmt_stream_2023(World, g, s)
                        = basic_savefmt_stream(World, g, s)
              /\ \A other \in Guards :
                    live[other] =>
                        basic_savefmt_move_2023(World, g, other)
                            = basic_savefmt_move(World, g, other)
    /\ \A g \in Guards :
          live[g] =>
              /\ \A s \in Streams :
                    capture_2023(World, g, s) = returns(capture(World, g, s))
              /\ Bound(g) =>
                    /\ restore_2023(World, g) = returns(restore(World, g, FALSE))
                    /\ restore_2023(World, g) = returns(restore_2024(World, g))
              /\ release_2023(World, g) = release(World, g)
              /\ stream_2023(World, g) = stream(World, g)
              /\ destroy_basic_savefmt_2023(World, g)
                     = returns(destroy_basic_savefmt(World, g))
              /\ \A other \in Guards :
                    live[other] =>
                        operator_assign_2023(World, g, other)
                            = operator_assign(World, g, other)
    /\ last.op \notin {"capture_throw", "dtor_throw"}

\* A capture of the 2023 revision has changed a stream, and now two guards
\* are bound to different streams.
C29_Witness ==
    /\ last.op = "capture"
    /\ last.chg
    /\ \E g \in Guards, h \in Guards :
          Bound(g) /\ Bound(h) /\ bound_stream[g] # bound_stream[h]

\* C30: capture() of the 2023 revision raises in no state of the guard,
\* bound or unbound, and leaves the guard bound to the stream with that
\* stream's configuration as its snapshot; so operator<< and operator>> on
\* a default-constructed temporary raise nothing, return the stream, bind
\* the temporary to it with its configuration as snapshot, and change no
\* stream.
C30_StrictCaptureNeverThrows ==
    /\ \A g \in Guards, s \in Streams :
          live[g] =>
              LET o == capture_2023(World, g, s)
              IN  /\ ~o.thrown
                  /\ stream_2023(o.world, g) = s
                  /\ Config(o.world.saved_format[g]) = Config(o.world.streams[s])
    /\ \A g \in Guards, s \in Streams :
          ~live[g] =>
              LET i == operator_insert_2023(basic_savefmt_2023(World, g), s, g)
                  e == operator_extract_2023(basic_savefmt_2023(World, g), s, g)
              IN  /\ ~i.thrown /\ ~e.thrown
                  /\ i.ret = s /\ e.ret = s
                  /\ stream_2023(i.world, g) = s /\ stream_2023(e.world, g) = s
                  /\ Config(i.world.saved_format[g]) = Config(streams[s])
                  /\ Config(e.world.saved_format[g]) = Config(streams[s])
                  /\ i.world.streams = streams /\ e.world.streams = streams
    /\ last.op # "capture_throw"

\* A capture of the 2023 revision has returned without changing a stream;
\* the only live guard is bound and its snapshot, which is not the default
\* configuration, is its stream's configuration.
C30_Witness ==
    /\ last.op = "capture"
    /\ ~last.chg
    /\ Cardinality({g \in Guards : live[g]}) = 1
    /\ \E g \in Guards :
          /\ Bound(g)
          /\ Config(saved_format[g]) = Config(streams[bound_stream[g]])
          /\ Config(saved_format[g]) # Config(ios_init(nullptr))

----------------------------------------------------------------------------
(* The lifetime of the streams, and the streams an operation dereferences. *)

\* The storage of a stream whose lifetime has ended: no ios object is there.
no_stream == [fmt |-> 0, rdbuf |-> nullptr]

\* The streams that do not exist in world w.
destroyed(w) == {s \in Streams : w.streams[s] = no_stream}

\* restore(): bound_stream->copyfmt( saved_format ) under the test
\* bound_stream != nullptr is its only use of a stream.
restore_accesses(w, g) ==
    IF w.bound_stream[g] # nullptr THEN {w.bound_stream[g]} ELSE {}

\* capture( stream ): restore(), then saved_format.copyfmt( stream ).
capture_accesses(w, g, s) == restore_accesses(w, g) \cup {s}

\* basic_savefmt( stream ): saved_format.copyfmt( stream ).
basic_savefmt_stream_accesses(w, g, s) == {s}

\* release(), stream(), the move constructor and move assignment handle the
\* pointer bound_stream and the guards' saved_format only.
release_accesses(w, g) == {}

\* ~basic_savefmt(): restore().
destroy_basic_savefmt_accesses(w, g) == restore_accesses(w, g)

\* std::ostringstream out;  a stream begins to exist, in its initial
\* configuration.
CreateStream(s) ==
    /\ chain = nullptr
    /\ s \in destroyed(World)
    /\ streams' = [streams EXCEPT ![s] = ios_init(s)]
    /\ last' = Op("stream_ctor", nullptr, World)
    /\ UNCHANGED <<live, bound_stream, saved_format, chain, temps, before, binding>>

\* The stream's scope ends.  The program keeps to the rule that a stream
\* outlives the bindings made to it: no guard's recorded binding is to s.
DestroyStream(s) ==
    /\ chain = nullptr
    /\ s \notin destroyed(World)
    /\ \A g \in Guards : live[g] => binding[g].s # s
    /\ streams' = [streams EXCEPT ![s] = no_stream]
    /\ last' = Op("stream_dtor", nullptr, World)
    /\ UNCHANGED <<live, bound_stream, saved_format, chain, temps, before, binding>>

\* Programs whose streams come and go, in any initial configuration: a
\* stream handed to a guard exists.
NextLife ==
    \/ \E g \in Guards : DefaultConstruct(g)
    \/ \E g \in Guards, s \in Streams \ destroyed(World) : CapturingConstruct(g, s)
    \/ \E g \in Guards, other \in Guards : MoveConstruct(g, other)
    \/ \E g \in Guards, other \in Guards : MoveAssign(g, other)
    \/ \E g \in Guards, s \in Streams \ destroyed(World) : Capture(g, s)
    \/ \E g \in Guards, r \in BOOLEAN : Restore(g, r)
    \/ \E g \in Guards : Release(g)
    \/ \E g \in Guards : Destroy(g)
    \/ \E s \in Streams : CreateStream(s)
    \/ \E s \in Streams : DestroyStream(s)

SpecLife == Init /\ [][NextLife]_vars

\* No later operation on g in world w dereferences a stream, but capture()
\* and only the stream handed to it.
Detached(w, g) ==
    /\ restore_accesses(w, g) = {}
    /\ destroy_basic_savefmt_accesses(w, g) = {}
    /\ release_accesses(w, g) = {}
    /\ \A r \in BOOLEAN : restore(w, g, r).streams = w.streams
    /\ destroy_basic_savefmt(w, g).streams = w.streams
    /\ \A s \in Streams : capture_accesses(w, g, s) = {s}

\* C31: a guard dereferences a stream only while bound to it.  After
\* release(), after restore with release, and after being the source of a
\* move, no restore(), release() or destruction of the guard reads or
\* writes a stream, and a capture() reads only the stream it is given.  In
\* programs that destroy a stream only when no guard is bound to it, no
\* bound_stream refers to a destroyed stream and no operation on any guard
\* dereferences one.
C31_NoAccessUnlessBound ==
    /\ \A g \in Guards :
          live[g] =>
              /\ Detached(release(World, g), g)
              /\ Detached(restore(World, g, TRUE), g)
              /\ \A h \in Guards \ {g} : Detached(Moved(h, g), g)
              /\ ~Bound(g) => Detached(World, g)
    /\ \A g \in Guards :
          live[g] =>
              /\ bound_stream[g] \notin destroyed(World)
              /\ restore_accesses(World, g) \cap destroyed(World) = {}
              /\ destroy_basic_savefmt_accesses(World, g) \cap destroyed(World) = {}
              /\ release_accesses(World, g) \cap destroyed(World) = {}
              /\ \A s \in Streams \ destroyed(World) :
                    capture_accesses(World, g, s) \cap destroyed(World) = {}
    /\ \A g \in Guards, s \in Streams \ destroyed(World) :
          ~live[g] =>
              basic_savefmt_stream_accesses(World, g, s) \cap destroyed(World) = {}

\* A stream has just been destroyed while a guard that once was bound (it
\* holds a snapshot that is not the default) is alive and unbound, and
\* another guard is bound to a stream that exists.
C31_Witness ==
    /\ last.op = "stream_dtor"
    /\ destroyed(World) # {}
    /\ \E g \in Guards :
          live[g] /\ ~Bound(g) /\ Config(saved_format[g]) # Config(ios_init(nullptr))
    /\ \E h \in Guards : Bound(h)

====
